---- MODULE Spec2Model ----
(***************************************************************************)
(* Verification model of the imbi component catalogue API:                 *)
(*   - keyset pagination of the components collection                      *)
(*     (imbi/endpoints/components/handlers.py, components.py),             *)
(*   - RecordRequestHandler.patch with its cascade over dependent projects *)
(*     (imbi/endpoints/components/handlers.py),                            *)
(*   - the project aggregate loader (imbi/models.py).                      *)
(***************************************************************************)
EXTENDS Integers, Sequences, FiniteSets, TLC

\* ------------------------------------------------------------------------
\* Bounds of the model
\* ------------------------------------------------------------------------
MaxPackages == 4
MaxLimit == 3
MaxProjects == 3
MaxVersion == 4
PoolSize == 2

VARIABLES
    \* -- components collection listing ----------------------------------
    package_urls,   \* keys of v1.components, as ranks in the sort order
    token,          \* pagination token of the next request
    pageState,      \* "start" | "more" | "end"
    returned,       \* concatenation of the pages returned so far
    requests,       \* number of page requests issued
    mutated,        \* has the collection changed since the first page?
    always,         \* rows present since the first page, never deleted
    hidden,         \* rows inserted at or below the cursor issued then
    \* -- project aggregate loader ---------------------------------------
    projectRow,     \* does v1.projects hold the requested id?
    lpc,            \* position of models.project: idle | root | gather | done
    sub,            \* state of each of the eight sub-loads
    loadResult,     \* what models.project handed to its caller
    issued,         \* sub-loads that were started
    \* -- component record patch and cascade ------------------------------
    components,     \* v1.components: package_url -> row
    projects,       \* ids of the rows of v1.projects
    project_components, \* v1.project_components: <<project_id, package_url>>
    settings,       \* application settings: components.project_fact_type_id
    handler,        \* per request handler: the state of its patch request
    \* -- project components listing --------------------------------------
    item,           \* the row _postprocess_item is given
    exposed,        \* the status the listing exposes for it, "" before
    \* -- aggregate loader on a bounded connection pool -------------------
    loader,         \* per call of models.project: position and sub-loads
    free            \* connections of the pool that nobody holds

pageVars == <<package_urls, token, pageState, returned, requests, mutated,
              always, hidden>>
loadVars == <<projectRow, lpc, sub, loadResult, issued>>
patchVars == <<components, projects, project_components, settings, handler>>
itemVars == <<item, exposed>>
poolVars == <<loader, free>>
vars == <<pageVars, loadVars, patchVars, itemVars, poolVars>>

\* ------------------------------------------------------------------------
\* Generic helpers
\* ------------------------------------------------------------------------
Min(S) == CHOOSE x \in S : \A y \in S : x <= y

RECURSIVE SortAsc(_)
\* ORDER BY c.package_url ASC
SortAsc(S) == IF S = {} THEN <<>>
              ELSE <<Min(S)>> \o SortAsc(S \ {Min(S)})

Take(s, n) == SubSeq(s, 1, IF Len(s) < n THEN Len(s) ELSE n)

Range(s) == {s[i] : i \in 1..Len(s)}

\* ------------------------------------------------------------------------
\* Components collection: keyset pagination
\* ------------------------------------------------------------------------
PackageKeys == 1..MaxPackages
Limits == 1..MaxLimit
MaxRequests == MaxPackages + 2

\* ComponentToken.__init__: starting_package defaults to '' which sorts
\* before every package_url (rank 0).
ComponentToken(limit) == [starting_package |-> 0, limit |-> limit]

with_first_same_start(tok, value) == tok

\* ComponentToken.with_first: the last row's package_url replaces
\* starting_package, every other key of the token is kept.
with_first(tok, value) == [tok EXCEPT !.starting_package = value]

COLLECTION_SQL_ge(rows, starting_package, limit) ==
    Take(SortAsc({k \in rows : k >= starting_package}), limit)

\* COLLECTION_SQL without its WHERE clause
COLLECTION_SQL_unfiltered(rows, starting_package, limit) ==
    Take(SortAsc(rows), limit)

\* WHERE c.package_url > %(starting_package)s ORDER BY c.package_url ASC
\* LIMIT %(limit)s
COLLECTION_SQL(rows, starting_package, limit) ==
    Take(SortAsc({k \in rows : k > starting_package}), limit)

\* One page request with token tok: run the query, hand the rows out and
\* issue the next token from the last row unless the page is short.
CollectionGet(tok) ==
    LET rows == COLLECTION_SQL(package_urls, tok.starting_package, tok.limit)
    IN  /\ requests < MaxRequests
        /\ returned' = returned \o rows
        /\ requests' = requests + 1
        /\ IF Len(rows) = tok.limit
              THEN /\ token' = with_first(tok, rows[Len(rows)])
                   /\ pageState' = "more"
              ELSE /\ token' = tok
                   /\ pageState' = "end"
        /\ always' = IF pageState = "start" THEN package_urls ELSE always
        /\ UNCHANGED <<package_urls, mutated, hidden>>

\* first request: no token, limit from the request
FirstPage ==
    /\ pageState = "start"
    /\ \E l \in Limits : CollectionGet(ComponentToken(l))
    /\ UNCHANGED <<loadVars, patchVars, itemVars, poolVars>>

\* following request: the token the previous page returned
NextPage ==
    /\ pageState = "more"
    /\ CollectionGet(token)
    /\ UNCHANGED <<loadVars, patchVars, itemVars, poolVars>>

\* CollectionRequestHandler.post: a component is inserted
InsertComponent ==
    /\ \E k \in PackageKeys \ package_urls :
          /\ package_urls' = package_urls \cup {k}
          /\ hidden' = IF pageState = "more" /\ k <= token.starting_package
                        THEN hidden \cup {k} ELSE hidden
    /\ mutated' = (mutated \/ pageState # "start")
    /\ UNCHANGED <<token, pageState, returned, requests, always>>
    /\ UNCHANGED <<loadVars, patchVars, itemVars, poolVars>>

\* RecordRequestHandler.delete: a component is deleted
RemoveComponent ==
    /\ \E k \in package_urls :
          /\ package_urls' = package_urls \ {k}
          /\ always' = always \ {k}
    /\ mutated' = (mutated \/ pageState # "start")
    /\ UNCHANGED <<token, pageState, returned, requests, hidden>>
    /\ UNCHANGED <<loadVars, patchVars, itemVars, poolVars>>

PageInit ==
    /\ package_urls \in SUBSET PackageKeys
    /\ token = ComponentToken(1)
    /\ pageState = "start"
    /\ returned = <<>>
    /\ requests = 0
    /\ mutated = FALSE
    /\ always = {}
    /\ hidden = {}

\* ------------------------------------------------------------------------
\* Project aggregate loader (imbi/models.py)
\* ------------------------------------------------------------------------
SubLoads == {"namespace", "project_type", "project_facts", "project_links",
             "project_urls", "project_identifiers", "project_components",
             "project_dependencies"}

NoResult == [kind |-> "pending", source |-> "-"]

gather_return_exceptions(st) ==
    IF \A s \in SubLoads : st[s] \in {"ok", "failed"} THEN "return"
    ELSE "pending"

\* asyncio.gather(...) without return_exceptions: the first sub-load that
\* raises makes the awaiting caller raise; it returns once all have results.
gather(st) ==
    IF \E s \in SubLoads : st[s] = "failed" THEN "raise"
    ELSE IF \A s \in SubLoads : st[s] = "ok" THEN "return"
    ELSE "pending"

\* models.project is called
ProjectCall ==
    /\ lpc = "idle"
    /\ lpc' = "root"
    /\ UNCHANGED <<projectRow, sub, loadResult, issued>>
    /\ UNCHANGED <<pageVars, patchVars, itemVars, poolVars>>

\* conn.execute(Project.SQL): the row is there, eight sub-loads are started
ProjectRootFound ==
    /\ lpc = "root"
    /\ projectRow
    /\ lpc' = "gather"
    /\ sub' = [s \in SubLoads |-> "running"]
    /\ issued' = SubLoads
    /\ UNCHANGED <<projectRow, loadResult>>
    /\ UNCHANGED <<pageVars, patchVars, itemVars, poolVars>>

\* the sub-loads are started although the root row is missing
ProjectRootMissing_loads ==
    /\ lpc = "root"
    /\ ~projectRow
    /\ lpc' = "gather"
    /\ sub' = [s \in SubLoads |-> "running"]
    /\ issued' = SubLoads
    /\ UNCHANGED <<projectRow, loadResult>>
    /\ UNCHANGED <<pageVars, patchVars, itemVars, poolVars>>

\* conn.execute(Project.SQL): row_count is 0, the function falls off its
\* end and returns None
ProjectRootMissing ==
    /\ lpc = "root"
    /\ ~projectRow
    /\ lpc' = "done"
    /\ loadResult' = [kind |-> "None", source |-> "-"]
    /\ UNCHANGED <<projectRow, sub, issued>>
    /\ UNCHANGED <<pageVars, patchVars, itemVars, poolVars>>

\* conn.execute(Project.SQL) fails: on_postgres_error raises DatabaseError
ProjectRootFails ==
    /\ lpc = "root"
    /\ lpc' = "done"
    /\ loadResult' = [kind |-> "DatabaseError", source |-> "project"]
    /\ UNCHANGED <<projectRow, sub, issued>>
    /\ UNCHANGED <<pageVars, patchVars, itemVars, poolVars>>

\* what the caller of models.project sees once the state of the sub-loads
\* changed to st with s the sub-load that just finished
ProjectAwait(st, s) ==
    IF lpc # "gather" THEN UNCHANGED <<lpc, loadResult>>
    ELSE IF gather(st) = "raise"
         THEN /\ lpc' = "done"
              /\ loadResult' = [kind |-> "DatabaseError", source |-> s]
    ELSE IF gather(st) = "return"
         THEN /\ lpc' = "done"
              /\ loadResult' = [kind |-> "Project",
                                source |-> IF \A t \in SubLoads : st[t] = "ok"
                                           THEN "complete" ELSE "partial"]
    ELSE UNCHANGED <<lpc, loadResult>>

\* _load / _load_collection of one sub-load returns its rows
SubLoadReturns ==
    /\ \E s \in SubLoads :
          /\ sub[s] = "running"
          /\ sub' = [sub EXCEPT ![s] = "ok"]
          /\ ProjectAwait(sub', s)
    /\ UNCHANGED <<projectRow, issued>>
    /\ UNCHANGED <<pageVars, patchVars, itemVars, poolVars>>

\* _load / _load_collection of one sub-load fails: its on_postgres_error
\* raises DatabaseError.  Sub-loads still running are not cancelled.
SubLoadFails ==
    /\ \E s \in SubLoads :
          /\ sub[s] = "running"
          /\ sub' = [sub EXCEPT ![s] = "failed"]
          /\ ProjectAwait(sub', s)
    /\ UNCHANGED <<projectRow, issued>>
    /\ UNCHANGED <<pageVars, patchVars, itemVars, poolVars>>

LoadInit ==
    /\ projectRow \in BOOLEAN
    /\ lpc = "idle"
    /\ sub = [s \in SubLoads |-> "idle"]
    /\ loadResult = NoResult
    /\ issued = {}

LoadIdle ==
    /\ projectRow = TRUE
    /\ lpc = "idle"
    /\ sub = [s \in SubLoads |-> "idle"]
    /\ loadResult = NoResult
    /\ issued = {}

PageIdle ==
    /\ package_urls = {}
    /\ token = ComponentToken(1)
    /\ pageState = "start"
    /\ returned = <<>>
    /\ requests = 0
    /\ mutated = FALSE
    /\ always = {}
    /\ hidden = {}

\* ------------------------------------------------------------------------
\* Component records: values, documents and JSON patch
\* ------------------------------------------------------------------------
\* A JSON value is a pair <<type, text>>.
Str(x)  == <<"str", x>>
Num(x)  == <<"int", x>>
None    == <<"null", "">>

\* models.Component: the fields in declaration order
FIELDS == <<"package_url", "name", "status", "icon_class", "active_version",
            "home_page">>

\* models.ComponentStatus
ComponentStatus == {"Active", "Deprecated", "Forbidden"}
ACTIVE == Str("Active")

\* texts that semver.VersionRange parses
VersionRanges == {">=2", ">=3"}

\* A dict is a sequence of <<key, value>> pairs in insertion order.
Keys(d)   == {d[i][1] : i \in 1..Len(d)}
Has(d, k) == k \in Keys(d)
Get(d, k) == d[CHOOSE i \in 1..Len(d) : d[i][1] = k][2]
Put(d, k, v) ==
    IF Has(d, k)
    THEN [i \in 1..Len(d) |-> IF d[i][1] = k THEN <<k, v>> ELSE d[i]]
    ELSE Append(d, <<k, v>>)
DelKey(e) == e[1]
Del(d, k) == SelectSeq(d, LAMBDA e : DelKey(e) # k)

\* Component.model_validate(row).model_dump(): the six model fields of the
\* row, in declaration order; the other columns are dropped.
model_dump(row) == [i \in 1..Len(FIELDS) |-> <<FIELDS[i], row[FIELDS[i]]>>]

IsStr(v) == v[1] = "str"

Component_model_validate_any_status(d) ==
    /\ Has(d, "package_url") => IsStr(Get(d, "package_url"))
    /\ Has(d, "name") /\ IsStr(Get(d, "name"))
    /\ Has(d, "status") /\ IsStr(Get(d, "status"))
    /\ Has(d, "icon_class") /\ IsStr(Get(d, "icon_class"))
    /\ Has(d, "active_version")
    /\ \/ Get(d, "active_version") = None
       \/ /\ IsStr(Get(d, "active_version"))
          /\ Get(d, "active_version")[2] \in VersionRanges
    /\ Has(d, "home_page")
    /\ Get(d, "home_page") = None \/ IsStr(Get(d, "home_page"))

\* models.Component.model_validate(updated_dict) succeeds.  package_url has
\* a default (the constr(...) object is the field's default, not its
\* type), so it is the one field that may be absent; keys that are not
\* fields are ignored.
Component_model_validate(d) ==
    /\ Has(d, "package_url") => IsStr(Get(d, "package_url"))
    /\ Has(d, "name") /\ IsStr(Get(d, "name"))
    /\ Has(d, "status") /\ IsStr(Get(d, "status"))
    /\ Get(d, "status")[2] \in ComponentStatus
    /\ Has(d, "icon_class") /\ IsStr(Get(d, "icon_class"))
    /\ Has(d, "active_version")
    /\ \/ Get(d, "active_version") = None
       \/ /\ IsStr(Get(d, "active_version"))
          /\ Get(d, "active_version")[2] \in VersionRanges
    /\ Has(d, "home_page")
    /\ Get(d, "home_page") = None \/ IsStr(Get(d, "home_page"))

\* -- jsonpatch -----------------------------------------------------------
JsonOps == {"add", "remove", "replace", "move", "copy", "test"}

Op(op, path, value) == [op |-> op, path |-> path, from |-> "", value |-> value]
OpFrom(op, from, path) == [op |-> op, path |-> path, from |-> from,
                           value |-> None]

\* jsonpatch.JsonPatch(body): every operation must name a known op
JsonPatch(body) == \A i \in 1..Len(body) : body[i].op \in JsonOps

Ok(d)    == [err |-> "", doc |-> d]
Fail(e)  == [err |-> e, doc |-> <<>>]

\* one operation applied to the dict d; the values are scalars, so a path
\* of more than one token cannot be resolved
ApplyOperation(d, o) ==
    IF Len(o.path) # 1 THEN Fail("JsonPointerException")
    ELSE LET k == o.path[1] IN
      CASE o.op = "add"     -> Ok(Put(d, k, o.value))
        [] o.op = "remove"  -> IF Has(d, k) THEN Ok(Del(d, k))
                               ELSE Fail("JsonPatchConflict")
        [] o.op = "replace" -> IF Has(d, k) THEN Ok(Put(d, k, o.value))
                               ELSE Fail("JsonPatchConflict")
        [] o.op = "test"    -> IF Has(d, k) /\ Get(d, k) = o.value THEN Ok(d)
                               ELSE Fail("JsonPatchTestFailed")
        [] o.op = "move"    -> IF ~Has(d, o.from) THEN Fail("JsonPatchConflict")
                               ELSE IF o.from = k THEN Ok(d)
                               ELSE Ok(Put(Del(d, o.from), k, Get(d, o.from)))
        [] o.op = "copy"    -> IF ~Has(d, o.from) THEN Fail("JsonPatchConflict")
                               ELSE Ok(Put(d, k, Get(d, o.from)))

RECURSIVE apply(_, _)
\* patch.apply(original_dict): the operations in order on a copy; the first
\* one that fails raises
apply(d, body) ==
    IF body = <<>> THEN Ok(d)
    ELSE LET r == ApplyOperation(d, Head(body))
         IN  IF r.err # "" THEN r ELSE apply(r.doc, Tail(body))

\* all(original_dict[k] == updated_dict[k] for k in updated_dict):
\* walks the keys of updated_dict in order and stops at the first key that
\* differs; a key original_dict does not have raises KeyError.
AllEqual(original_dict, updated_dict) ==
    LET stops == {i \in 1..Len(updated_dict) :
                     \/ ~Has(original_dict, updated_dict[i][1])
                     \/ Get(original_dict, updated_dict[i][1])
                           # updated_dict[i][2]}
    IN  IF stops = {} THEN "true"
        ELSE IF ~Has(original_dict, updated_dict[Min(stops)][1])
             THEN "KeyError"
        ELSE "false"

\* -- SQL -------------------------------------------------------------------
Columns == {"package_url", "name", "status", "icon_class", "active_version",
            "home_page", "last_modified_by"}

\* PATCH_SQL with WHERE package_url = %(package_url)s
PATCH_SQL_keyed_by_new(table, params, current_package_url, username) ==
    IF \E i \in 1..Len(FIELDS) : ~Has(params, FIELDS[i])
    THEN [err |-> "KeyError", rows |-> 0, table |-> table]
    ELSE LET new_url == Get(params, "package_url")[2]
         IN  IF new_url \notin DOMAIN table
             THEN [err |-> "", rows |-> 0, table |-> table]
             ELSE [err |-> "", rows |-> 1,
                   table |-> [u \in DOMAIN table |->
                                 IF u = new_url
                                 THEN [c \in Columns |->
                                        IF c = "last_modified_by"
                                        THEN Str(username)
                                        ELSE Get(params, c)]
                                 ELSE table[u]]]

\* PATCH_SQL without "status = %(status)s" in its SET list
PATCH_SQL_keeps_status(table, params, current_package_url, username) ==
    IF \E i \in 1..Len(FIELDS) : ~Has(params, FIELDS[i])
    THEN [err |-> "KeyError", rows |-> 0, table |-> table]
    ELSE LET new_url == Get(params, "package_url")[2]
         IN  IF current_package_url \notin DOMAIN table
             THEN [err |-> "", rows |-> 0, table |-> table]
             ELSE IF new_url # current_package_url /\ new_url \in DOMAIN table
             THEN [err |-> "UniqueViolation", rows |-> 0, table |-> table]
             ELSE [err |-> "", rows |-> 1,
                   table |-> [u \in (DOMAIN table \ {current_package_url})
                                      \cup {new_url} |->
                                 IF u = new_url
                                 THEN [c \in Columns |->
                                        IF c = "last_modified_by"
                                        THEN Str(username)
                                        ELSE IF c = "status"
                                        THEN table[current_package_url][c]
                                        ELSE Get(params, c)]
                                 ELSE table[u]]]

\* PATCH_SQL executed with params: UPDATE v1.components SET ... WHERE
\* package_url = %(current_package_url)s.  A placeholder without a key in
\* params raises KeyError before anything is sent.
PATCH_SQL(table, params, current_package_url, username) ==
    IF \E i \in 1..Len(FIELDS) : ~Has(params, FIELDS[i])
    THEN [err |-> "KeyError", rows |-> 0, table |-> table]
    ELSE LET new_url == Get(params, "package_url")[2]
             row == [c \in Columns |->
                        IF c = "last_modified_by" THEN Str(username)
                        ELSE Get(params, c)]
         IN  IF current_package_url \notin DOMAIN table
             THEN [err |-> "", rows |-> 0, table |-> table]
             ELSE IF new_url # current_package_url /\ new_url \in DOMAIN table
             THEN [err |-> "UniqueViolation", rows |-> 0, table |-> table]
             ELSE [err |-> "", rows |-> 1,
                   table |-> [u \in (DOMAIN table \ {current_package_url})
                                      \cup {new_url} |->
                                 IF u = new_url THEN row ELSE table[u]]]

\* ------------------------------------------------------------------------
\* RecordRequestHandler: patch, cascade, delete
\* ------------------------------------------------------------------------
Handlers == {"h1", "h2"}
\* the handler of the requests that come one after the other
Sequential == {"h1"}
Urls == {"pkg:a", "pkg:b", "pkg:c"}
ProjectIds == 1..MaxProjects

\* request bodies the clients send
PatchBodies == {
    <<Op("replace", <<"name">>, Str("bar"))>>,
    <<Op("replace", <<"name">>, Str("foo"))>>,
    <<Op("add", <<"name">>, Str("baz"))>>,
    <<Op("replace", <<"status">>, Str("Deprecated"))>>,
    <<Op("replace", <<"status">>, Str("Active"))>>,
    <<Op("replace", <<"status">>, Str("Bogus"))>>,
    <<Op("replace", <<"active_version">>, Str(">=3"))>>,
    <<Op("replace", <<"active_version">>, Str("junk"))>>,
    <<Op("replace", <<"name">>, Num("42"))>>,
    <<Op("replace", <<"package_url">>, Str("pkg:b"))>>,
    <<Op("replace", <<"package_url">>, Str("pkg:b")),
      Op("replace", <<"status">>, Str("Deprecated"))>>,
    <<Op("replace", <<"nope">>, Str("x"))>>,
    <<Op("replace", <<"home_page", "x">>, Str("x"))>>,
    <<Op("remove", <<"home_page">>, None)>>,
    <<Op("remove", <<"name">>, None),
      Op("replace", <<"icon_class">>, Str("far"))>>,
    <<Op("remove", <<"package_url">>, None),
      Op("replace", <<"name">>, Str("bar"))>>,
    <<Op("test", <<"name">>, Str("foo")),
      Op("replace", <<"name">>, Str("bar"))>>,
    <<Op("test", <<"name">>, Str("nope"))>>,
    <<OpFrom("copy", "icon_class", <<"name">>),
      Op("replace", <<"icon_class">>, Str("far"))>>,
    <<OpFrom("move", "home_page", <<"name">>)>>,
    <<Op("add", <<"extra">>, Str("x"))>>,
    <<Op("replace", <<"name">>, Str("bar")),
      Op("add", <<"extra">>, Str("x"))>>,
    <<Op("replace", <<"status">>, Str("Deprecated")),
      Op("replace", <<"active_version">>, Str(">=3"))>>,
    <<Op("frobnicate", <<"name">>, Str("bar"))>> }

NoDoc == <<>>

\* a handler that has no request
IdleHandler ==
    [pc |-> "idle", url |-> "", body |-> <<>>, replay |-> FALSE,
     original |-> NoDoc, updated |-> NoDoc, applied |-> FALSE,
     outcome |-> "", response |-> NoDoc,
     writes |-> 0, zeroRows |-> FALSE, cascaded |-> FALSE,
     dependents |-> {}, todo |-> {}, recomputed |-> {}, skipped |-> {},
     fatal |-> FALSE, disturbed |-> FALSE,
     prev |-> [outcome |-> "", writes |-> 0]]

Finish(r, outcome) == [r EXCEPT !.pc = "done", !.outcome = outcome]

\* RecordRequestHandler._project_update_required without the branch on a
\* changed status
_project_update_required_version_only(config, original, updated) ==
    IF config # "None"
    THEN Get(updated, "status") = ACTIVE
            /\ Get(updated, "active_version") # Get(original, "active_version")
    ELSE FALSE

\* RecordRequestHandler._project_update_required; config is
\* settings['components']['project_fact_type_id']
_project_update_required(config, original, updated) ==
    IF config # "None"
    THEN \/ Get(updated, "status") # Get(original, "status")
         \/ /\ Get(updated, "status") = ACTIVE
            /\ Get(updated, "active_version") # Get(original, "active_version")
    ELSE FALSE

\* patch, from the request to the point where PATCH_SQL is awaited:
\* GET_SQL, JsonPatch(body), patch.apply, the 304 test and the validation.
PatchRead(r, url, body) ==
    LET r0 == [r EXCEPT !.url = url, !.body = body]
    IN  IF url \notin DOMAIN components THEN Finish(r0, "ItemNotFound")
        ELSE LET original_dict == model_dump(components[url])
                 r1 == [r0 EXCEPT !.original = original_dict]
             IN  IF ~JsonPatch(body) THEN Finish(r1, "BadJsonPatch")
                 ELSE LET res == apply(original_dict, body) IN
                   IF res.err # "" THEN Finish(r1, res.err)
                   ELSE LET r2 == [r1 EXCEPT !.updated = res.doc,
                                             !.applied = TRUE]
                            same == AllEqual(original_dict, res.doc) IN
                     IF same = "KeyError" THEN Finish(r2, "KeyError")
                     ELSE IF same = "true" THEN Finish(r2, "NotModified")
                     ELSE IF ~Component_model_validate(res.doc)
                          THEN Finish(r2, "BadRequest")
                     ELSE [r2 EXCEPT !.pc = "write"]

\* a client sends PATCH /components/<url> with a body
PatchRequest(h) ==
    /\ handler[h].pc = "idle"
    /\ \E url \in Urls, body \in PatchBodies :
          handler' = [handler EXCEPT ![h] = PatchRead(IdleHandler, url, body)]
    /\ UNCHANGED <<components, projects, project_components, settings>>
    /\ UNCHANGED <<pageVars, loadVars, itemVars, poolVars>>

\* the client sends the same body again, to the record the first request
\* left behind
PatchReplay(h) ==
    /\ handler[h].pc = "done"
    /\ LET old == handler[h]
           url == IF old.writes = 1 THEN Get(old.updated, "package_url")[2]
                  ELSE old.url
           fresh == [IdleHandler EXCEPT
                        !.replay = TRUE,
                        !.disturbed = old.disturbed,
                        !.prev = [outcome |-> old.outcome,
                                  writes |-> old.writes]]
       IN  handler' = [handler EXCEPT ![h] = PatchRead(fresh, url, old.body)]
    /\ UNCHANGED <<components, projects, project_components, settings>>
    /\ UNCHANGED <<pageVars, loadVars, itemVars, poolVars>>

\* postgres_execute(PATCH_SQL, updated_dict) returns; on a written row the
\* handler decides at once whether the dependent projects are updated
PatchWrite(h) ==
    /\ handler[h].pc = "write"
    /\ LET r == handler[h]
           current == Get(r.original, "package_url")[2]
           res == PATCH_SQL(components, r.updated, current, h)
       IN  IF res.err # ""
           THEN /\ handler' = [handler EXCEPT ![h] = Finish(r, res.err)]
                /\ UNCHANGED <<components, project_components>>
           ELSE IF res.rows = 0
           THEN /\ handler' = [handler EXCEPT ![h] =
                       Finish([r EXCEPT !.zeroRows = TRUE], "DatabaseError")]
                /\ UNCHANGED <<components, project_components>>
           ELSE /\ components' = res.table
                /\ project_components' =
                       {<<e[1], IF e[2] = current
                                THEN Get(r.updated, "package_url")[2]
                                ELSE e[2]>> : e \in project_components}
                /\ handler' = [g \in Handlers |->
                       IF g = h
                       THEN [r EXCEPT
                               !.writes = 1,
                               !.pc = IF _project_update_required(
                                           settings, r.original, r.updated)
                                      THEN "query" ELSE "reread"]
                       ELSE [handler[g] EXCEPT
                               !.disturbed = (handler[g].pc # "idle")]]
    /\ UNCHANGED <<projects, settings>>
    /\ UNCHANGED <<pageVars, loadVars, itemVars, poolVars>>

\* _update_affected_projects: SELECT DISTINCT project_id FROM
\* v1.project_components WHERE package_url = ...
AffectedProjectsQuery(h) ==
    /\ handler[h].pc = "query"
    /\ LET r == handler[h]
           url == Get(r.updated, "package_url")[2]
           project_ids == {p \in ProjectIds : <<p, url>> \in project_components}
       IN  handler' = [handler EXCEPT ![h] =
              [r EXCEPT !.cascaded = TRUE,
                        !.dependents = project_ids,
                        !.todo = project_ids,
                        !.pc = IF project_ids = {} THEN "reread"
                               ELSE "fanout"]]
    /\ UNCHANGED <<components, projects, project_components, settings>>
    /\ UNCHANGED <<pageVars, loadVars, itemVars, poolVars>>

ForeignKeyViolation_aborts(todo, project_id) == {}

\* except psycopg2.errors.ForeignKeyViolation: logger.warning(...) and the
\* for loop goes on with the project ids that are left
ForeignKeyViolation(todo, project_id) == todo \ {project_id}

AfterProject(r, rest) ==
    [r EXCEPT !.todo = rest, !.pc = IF rest = {} THEN "reread" ELSE "fanout"]

\* scoring.update_component_score_for_project succeeds for one project id
ScoreUpdated(h) ==
    /\ handler[h].pc = "fanout"
    /\ \E p \in handler[h].todo :
          /\ p \in projects
          /\ handler' = [handler EXCEPT ![h] =
                AfterProject([@ EXCEPT !.recomputed = @ \cup {p}],
                             handler[h].todo \ {p})]
    /\ UNCHANGED <<components, projects, project_components, settings>>
    /\ UNCHANGED <<pageVars, loadVars, itemVars, poolVars>>

\* the project was deleted after the query: the upsert raises
\* ForeignKeyViolation, which on_postgres_error re-raises as it is
ScoreForeignKeyViolation(h) ==
    /\ handler[h].pc = "fanout"
    /\ \E p \in handler[h].todo :
          /\ p \notin projects
          /\ handler' = [handler EXCEPT ![h] =
                AfterProject([@ EXCEPT !.skipped = @ \cup {p}],
                             ForeignKeyViolation(handler[h].todo, p))]
    /\ UNCHANGED <<components, projects, project_components, settings>>
    /\ UNCHANGED <<pageVars, loadVars, itemVars, poolVars>>

\* any other database error is logged and skipped like a foreign key
\* violation
ScoreFails_skips(h) ==
    /\ handler[h].pc = "fanout"
    /\ \E p \in handler[h].todo :
          handler' = [handler EXCEPT ![h] =
                AfterProject([@ EXCEPT !.fatal = TRUE,
                                       !.skipped = @ \cup {p}],
                             handler[h].todo \ {p})]
    /\ UNCHANGED <<components, projects, project_components, settings>>
    /\ UNCHANGED <<pageVars, loadVars, itemVars, poolVars>>

\* any other database error: on_postgres_error hands it to the handler's
\* own on_postgres_error, the exception leaves the loop, the context
\* managers, _update_affected_projects and patch
ScoreFails(h) ==
    /\ handler[h].pc = "fanout"
    /\ \E p \in handler[h].todo :
          handler' = [handler EXCEPT ![h] =
                Finish([@ EXCEPT !.fatal = TRUE], "PostgresError")]
    /\ UNCHANGED <<components, projects, project_components, settings>>
    /\ UNCHANGED <<pageVars, loadVars, itemVars, poolVars>>

\* await self._get({'package_url': updated.package_url}): the response
PatchResponse(h) ==
    /\ handler[h].pc = "reread"
    /\ LET url == Get(handler[h].updated, "package_url")[2]
       IN  handler' = [handler EXCEPT ![h] =
              IF url \in DOMAIN components
              THEN Finish([@ EXCEPT !.response = model_dump(components[url])],
                          "Updated")
              ELSE Finish(@, "ItemNotFound")]
    /\ UNCHANGED <<components, projects, project_components, settings>>
    /\ UNCHANGED <<pageVars, loadVars, itemVars, poolVars>>

\* RecordRequestHandler.delete of another request: DELETE_SQL
DeleteComponent ==
    /\ \E url \in DOMAIN components :
          /\ components' = [u \in DOMAIN components \ {url} |-> components[u]]
          /\ project_components' = {e \in project_components : e[2] # url}
    /\ handler' = [h \in Handlers |->
                       [handler[h] EXCEPT
                           !.disturbed = (handler[h].pc # "idle")]]
    /\ UNCHANGED <<projects, settings>>
    /\ UNCHANGED <<pageVars, loadVars, itemVars, poolVars>>

\* a project is removed by another request
DeleteProject ==
    /\ \E p \in projects :
          /\ projects' = projects \ {p}
          /\ project_components' = {e \in project_components : e[1] # p}
    /\ UNCHANGED <<components, settings, handler>>
    /\ UNCHANGED <<pageVars, loadVars, itemVars, poolVars>>

ComponentRow(url, status, active_version) ==
    [c \in Columns |->
        CASE c = "package_url"    -> Str(url)
          [] c = "name"           -> Str("foo")
          [] c = "status"         -> Str(status)
          [] c = "icon_class"     -> Str("fas")
          [] c = "active_version" -> active_version
          [] c = "home_page"      -> None
          [] OTHER                -> Str("admin")]

PatchInit ==
    /\ \E st \in ComponentStatus, av \in {None, Str(">=2")},
          rows \in {{"pkg:a"}, {"pkg:a", "pkg:c"}, Urls} :
          components =
             [u \in rows |->
                 IF u = "pkg:a" THEN ComponentRow(u, st, av)
                 ELSE ComponentRow(u, "Active", None)]
    /\ projects = ProjectIds
    /\ project_components = ProjectIds \X {"pkg:a"}
    /\ settings \in {"None", "42"}
    /\ handler = [h \in Handlers |-> IdleHandler]

\* both requests address the one component of the store
ConcInit ==
    /\ \E st \in ComponentStatus, av \in {None, Str(">=2")} :
          components = [u \in {"pkg:a"} |-> ComponentRow(u, st, av)]
    /\ projects = ProjectIds
    /\ project_components = ProjectIds \X {"pkg:a"}
    /\ settings \in {"None", "42"}
    /\ handler = [h \in Handlers |-> IdleHandler]

PatchIdle ==
    /\ components = [u \in {"pkg:a"} |-> ComponentRow(u, "Active", None)]
    /\ projects = ProjectIds
    /\ project_components = ProjectIds \X {"pkg:a"}
    /\ settings = "None"
    /\ handler = [h \in Handlers |-> IdleHandler]

\* ------------------------------------------------------------------------
\* ProjectComponentsRequestHandler: the status a listing exposes
\* ------------------------------------------------------------------------
Versions == 1..MaxVersion

\* project_component.version in project_component.active_version, for the
\* ranges ">=2" and ">=3"
VersionIn(version, active_version) ==
    IF active_version = Str(">=2") THEN version >= 2 ELSE version >= 3

\* ProjectComponentsRequestHandler._postprocess_item: the value of
\* item['status'] when it returns
_postprocess_item(it) ==
    IF it.active_version = None THEN "Unscored"
    ELSE IF it.status = "Active"
         THEN IF VersionIn(it.version, it.active_version)
              THEN "Up-to-date" ELSE "Outdated"
    ELSE it.status

Items == [package_url : Urls, status : ComponentStatus,
          active_version : {None} \cup {Str(r) : r \in VersionRanges},
          version : Versions]

\* the listing takes the next row of COLLECTION_SQL
FetchItem ==
    /\ exposed # ""
    /\ item' \in Items
    /\ exposed' = ""
    /\ UNCHANGED <<pageVars, loadVars, patchVars, poolVars>>

\* the listing post-processes the row
PostprocessItem ==
    /\ exposed = ""
    /\ exposed' = _postprocess_item(item)
    /\ UNCHANGED item
    /\ UNCHANGED <<pageVars, loadVars, patchVars, poolVars>>

ItemInit ==
    /\ item \in Items
    /\ exposed = ""

ItemIdle ==
    /\ item = [package_url |-> "pkg:a", status |-> "Active",
               active_version |-> None, version |-> 1]
    /\ exposed = ""

\* ------------------------------------------------------------------------
\* models.project on a connection pool of PoolSize connections
\* ------------------------------------------------------------------------
Calls == 1..PoolSize

IdleLoader == [pc |-> "idle", sub |-> [s \in SubLoads |-> "idle"]]

\* models.project is called and asks the pool for a connection
PoolCall(c) ==
    /\ loader[c].pc = "idle"
    /\ loader' = [loader EXCEPT ![c].pc = "wait"]
    /\ UNCHANGED free
    /\ UNCHANGED <<pageVars, loadVars, patchVars, itemVars>>

\* async with application.postgres_connector(...) as conn: of project
PoolRootAcquire(c) ==
    /\ loader[c].pc = "wait"
    /\ free > 0
    /\ free' = free - 1
    /\ loader' = [loader EXCEPT ![c].pc = "root"]
    /\ UNCHANGED <<pageVars, loadVars, patchVars, itemVars>>

\* conn.execute(Project.SQL) found the row; asyncio.gather starts the eight
\* sub-loads, each of which asks the pool for a connection of its own,
\* while the connection of the root query stays open
PoolRootQuery(c) ==
    /\ loader[c].pc = "root"
    /\ loader' = [loader EXCEPT ![c] =
                     [pc |-> "gather", sub |-> [s \in SubLoads |-> "waiting"]]]
    /\ UNCHANGED free
    /\ UNCHANGED <<pageVars, loadVars, patchVars, itemVars>>

\* async with application.postgres_connector(...) as conn: of a sub-load
PoolSubAcquire(c) ==
    /\ free > 0
    /\ \E s \in SubLoads :
          /\ loader[c].sub[s] = "waiting"
          /\ loader' = [loader EXCEPT ![c].sub[s] = "running"]
    /\ free' = free - 1
    /\ UNCHANGED <<pageVars, loadVars, patchVars, itemVars>>

\* a sub-load returns its rows and gives its connection back
PoolSubRelease(c) ==
    /\ \E s \in SubLoads :
          /\ loader[c].sub[s] = "running"
          /\ loader' = [loader EXCEPT ![c].sub[s] = "ok"]
    /\ free' = free + 1
    /\ UNCHANGED <<pageVars, loadVars, patchVars, itemVars>>

\* gather has all eight results: project returns the Project and leaves
\* the async with block of the root connection
PoolReturn(c) ==
    /\ loader[c].pc = "gather"
    /\ \A s \in SubLoads : loader[c].sub[s] = "ok"
    /\ loader' = [loader EXCEPT ![c].pc = "done"]
    /\ free' = free + 1
    /\ UNCHANGED <<pageVars, loadVars, patchVars, itemVars>>

PoolInit ==
    /\ loader = [c \in Calls |-> IdleLoader]
    /\ free = PoolSize

PoolIdle ==
    /\ loader = [c \in Calls |-> IdleLoader]
    /\ free = PoolSize

\* ------------------------------------------------------------------------
\* Specifications
\* ------------------------------------------------------------------------
PageNext == FirstPage \/ NextPage \/ InsertComponent \/ RemoveComponent
PageSpecInit == PageInit /\ LoadIdle /\ PatchIdle /\ ItemIdle /\ PoolIdle
PageSpec == PageSpecInit /\ [][PageNext]_vars

LoadNext == ProjectCall \/ ProjectRootFound \/ ProjectRootMissing
               \/ ProjectRootFails \/ SubLoadReturns \/ SubLoadFails
LoadSpecInit == LoadInit /\ PageIdle /\ PatchIdle /\ ItemIdle /\ PoolIdle
LoadSpec == LoadSpecInit /\ [][LoadNext]_vars

PatchNext ==
    \/ \E h \in Sequential :
          \/ PatchRequest(h) \/ PatchReplay(h) \/ PatchWrite(h)
          \/ AffectedProjectsQuery(h) \/ ScoreUpdated(h)
          \/ ScoreForeignKeyViolation(h) \/ ScoreFails(h)
          \/ PatchResponse(h)
    \/ DeleteComponent
    \/ DeleteProject
PatchSpecInit == PatchInit /\ PageIdle /\ LoadIdle /\ ItemIdle /\ PoolIdle
PatchSpec == PatchSpecInit /\ [][PatchNext]_vars

\* two requests in flight on the same store
ConcNext ==
    \E h \in Handlers :
        \/ PatchRequest(h) \/ PatchWrite(h)
        \/ AffectedProjectsQuery(h) \/ ScoreUpdated(h)
        \/ ScoreFails(h) \/ PatchResponse(h)
ConcSpecInit == ConcInit /\ PageIdle /\ LoadIdle /\ ItemIdle /\ PoolIdle
ConcSpec == ConcSpecInit /\ [][ConcNext]_vars

ItemNext == FetchItem \/ PostprocessItem
ItemSpecInit == ItemInit /\ PageIdle /\ LoadIdle /\ PatchIdle /\ PoolIdle
ItemSpec == ItemSpecInit /\ [][ItemNext]_vars

PoolNext ==
    \E c \in Calls :
        \/ PoolCall(c) \/ PoolRootAcquire(c) \/ PoolRootQuery(c)
        \/ PoolSubAcquire(c) \/ PoolSubRelease(c) \/ PoolReturn(c)
PoolSpecInit == PoolInit /\ PageIdle /\ LoadIdle /\ PatchIdle /\ ItemIdle
PoolSpec == PoolSpecInit /\ [][PoolNext]_vars

Init == PageInit /\ LoadInit /\ PatchInit /\ ItemInit /\ PoolInit
Next == PageNext \/ LoadNext \/ PatchNext \/ ItemNext \/ PoolNext
Spec == Init /\ [][Next]_vars
\* ------------------------------------------------------------------------
\* Properties of the components listing (PageSpec)
\* ------------------------------------------------------------------------
\* C1: when the iteration has ended and the collection did not change
\* during it, the concatenation of the pages is the whole collection in
\* ascending package_url order, every component exactly once.
C1_PagesCoverCollection ==
    (pageState = "end" /\ ~mutated) => returned = SortAsc(package_urls)

\* an iteration of at least three pages over at least three components,
\* the last page being full, has ended on an unchanged collection
C1_Witness ==
    /\ pageState = "end"
    /\ ~mutated
    /\ requests >= 3
    /\ Len(returned) >= 3
    /\ Len(returned) = Cardinality(package_urls)

\* the store of the scenario: packages a, b, c, d
abcd == {1, 2, 3, 4}

\* after the k-th request of an iteration with page size 2 over a, b, c, d
Scenario(k) ==
    package_urls = abcd /\ ~mutated /\ requests = k /\ token.limit = 2

StrictlyIncreasing(s) == \A i, j \in 1..Len(s) : i < j => s[i] < s[j]

\* C12: under inserts and deletes between the page requests, the keys
\* returned over the iteration are strictly increasing, a page never
\* returns a row that was inserted at or below the cursor issued before,
\* and when the iteration ends every row that was there from the first
\* page on has been returned.
C12_ForwardOnly ==
    [][ /\ StrictlyIncreasing(returned')
        /\ Range(SubSeq(returned', Len(returned) + 1, Len(returned')))
              \cap hidden = {}
        /\ pageState' = "end" => always' \subseteq Range(returned')
      ]_vars

\* an iteration has ended during which a row was deleted and a row was
\* inserted below the cursor and not returned
C12_Witness ==
    /\ pageState = "end"
    /\ mutated
    /\ requests >= 3
    /\ hidden # {}
    /\ hidden \cap Range(returned) = {}
    /\ always # {}
    /\ Cardinality(always) < Len(returned)

\* ------------------------------------------------------------------------
\* Properties of patch and its cascade (PatchSpec)
\* ------------------------------------------------------------------------
Done(h) == handler[h].pc = "done"

\* the sequence only writes constants into members the component has
WritesConstants(body) ==
    \A i \in 1..Len(body) :
        /\ body[i].op \in {"add", "replace"}
        /\ Len(body[i].path) = 1
        /\ body[i].path[1] \in Range(FIELDS)

\* C2 (as stated): whenever a request answered Updated is sent again with
\* no change by anybody else in between, the answer is NotModified and
\* nothing is written and no cascade runs.
C2_PatchIdempotent ==
    \A h \in Handlers :
        (Done(h) /\ handler[h].replay /\ handler[h].prev.outcome = "Updated"
            /\ ~handler[h].disturbed)
        => (handler[h].outcome = "NotModified" /\ handler[h].writes = 0
            /\ ~handler[h].cascaded)

\* C2 (amended): an answer Updated comes with exactly one write, and for a
\* sequence of add/replace operations on members of the component, once its
\* write is committed the same sequence sent again, with no change by
\* anybody else in between, is answered NotModified without write or cascade.
C2_ConstantWritesIdempotent ==
    \A h \in Handlers :
        /\ (Done(h) /\ handler[h].outcome = "Updated") => handler[h].writes = 1
        /\ (Done(h) /\ handler[h].replay /\ handler[h].prev.writes = 1
               /\ ~handler[h].disturbed /\ WritesConstants(handler[h].body))
           => (handler[h].outcome = "NotModified" /\ handler[h].writes = 0
               /\ ~handler[h].cascaded)

\* a replace sequence was answered Updated and then NotModified
C2_Witness ==
    \E h \in Handlers :
        /\ Done(h) /\ handler[h].replay /\ ~handler[h].disturbed
        /\ handler[h].prev.outcome = "Updated"
        /\ WritesConstants(handler[h].body)
        /\ Len(handler[h].body) = 2
        /\ handler[h].outcome = "NotModified"

\* the schema of a component as the resource defines it: all six fields,
\* each of its type, status one of the enum values
SchemaValid(d) ==
    /\ \A i \in 1..Len(FIELDS) : Has(d, FIELDS[i])
    /\ \A k \in {"package_url", "name", "status", "icon_class"} :
          IsStr(Get(d, k))
    /\ Get(d, "status")[2] \in ComponentStatus
    /\ \A k \in {"active_version", "home_page"} :
          Get(d, k) = None \/ IsStr(Get(d, k))
    /\ IsStr(Get(d, "active_version"))
          => Get(d, "active_version")[2] \in VersionRanges

\* C3: every stored component satisfies the schema, and a request whose
\* patched snapshot does not satisfy it has written nothing and has run no
\* cascade.
C3_InvalidNeverPersisted ==
    /\ \A u \in DOMAIN components : SchemaValid(model_dump(components[u]))
    /\ \A h \in Handlers :
          (handler[h].applied /\ ~SchemaValid(handler[h].updated))
          => (handler[h].writes = 0 /\ ~handler[h].cascaded
              /\ handler[h].pc \in {"write", "done"})

\* a patch that changes a field and leaves an invalid status was rejected
C3_Witness ==
    \E h \in Handlers :
        /\ Done(h) /\ handler[h].applied
        /\ Has(handler[h].updated, "status")
        /\ Get(handler[h].updated, "status")[2] \notin ComponentStatus
        /\ handler[h].outcome = "BadRequest"
        /\ handler[h].url \in DOMAIN components
        /\ model_dump(components[handler[h].url]) = handler[h].original

\* C4: a request whose body parses but whose sequence fails to apply is
\* answered with the error of a bad patch (BadJsonPatch, status 400) and
\* writes nothing.
C4_ApplyFailureIsBadPatch ==
    \A h \in Handlers :
        (Done(h) /\ handler[h].original # NoDoc /\ JsonPatch(handler[h].body)
            /\ apply(handler[h].original, handler[h].body).err # "")
        => (handler[h].outcome = "BadJsonPatch" /\ handler[h].writes = 0)

\* C5: once the write of a patch is committed, a failure in the fan-out
\* over the dependent projects does not keep the request from answering
\* Updated.
C5_CascadeFailureNotReported ==
    \A h \in Handlers :
        (Done(h) /\ handler[h].writes = 1 /\ handler[h].fatal)
        => handler[h].outcome = "Updated"

\* C6: a fan-out in which exactly one dependent project raised a foreign
\* key violation, and no other error occurred, has recomputed every other
\* dependent project and the request is answered Updated.
C6_OneDeletedOthersRecomputed ==
    \A h \in Handlers :
        (Done(h) /\ handler[h].cascaded /\ ~handler[h].fatal
            /\ Cardinality(handler[h].skipped) = 1 /\ ~handler[h].disturbed)
        => /\ handler[h].recomputed = handler[h].dependents \ handler[h].skipped
           /\ handler[h].outcome = "Updated"

\* all projects were dependents, one was deleted, the others recomputed
C6_Witness ==
    \E h \in Handlers :
        /\ Done(h) /\ handler[h].outcome = "Updated"
        /\ handler[h].dependents = ProjectIds
        /\ Cardinality(handler[h].skipped) = 1
        /\ Cardinality(handler[h].recomputed) = MaxProjects - 1

\* C13: once an upsert of the fan-out failed with an error that is not a
\* foreign key violation, the request has ended with that error, the
\* failing project and every project not processed before it are left
\* unprocessed, and exactly the projects processed before it were
\* recomputed or skipped.
C13_FatalAbortsFanOut ==
    \A h \in Handlers :
        handler[h].fatal
        => /\ handler[h].pc = "done"
           /\ handler[h].outcome = "PostgresError"
           /\ handler[h].todo # {}
           /\ handler[h].recomputed \cup handler[h].skipped
                 = handler[h].dependents \ handler[h].todo

\* the failure hit the second project: one was recomputed, two are left
C13_Witness ==
    \E h \in Handlers :
        /\ handler[h].fatal
        /\ Cardinality(handler[h].recomputed) = 1
        /\ Cardinality(handler[h].todo) >= 2

\* the package_url read at the start of the patch and the patched one
CurrentUrl(h) == Get(handler[h].original, "package_url")[2]
UpdatedUrl(h) == Get(handler[h].updated, "package_url")[2]

\* C14: the step in which a patch writes changes exactly the row whose
\* package_url was read at the start: that row takes the patched values
\* (and the patched package_url), every other row stays as it is; the
\* query for the dependent projects uses the patched package_url, and a
\* request answered Updated has written once and answers with the row of
\* the patched package_url.
C14_WriteKeyedByOriginal ==
    [][ \A h \in Handlers :
          /\ (handler[h].writes = 0 /\ handler'[h].writes = 1)
             => /\ CurrentUrl(h) \in DOMAIN components
                /\ UpdatedUrl(h) # CurrentUrl(h)
                      => UpdatedUrl(h) \notin DOMAIN components
                /\ DOMAIN components' =
                      (DOMAIN components \ {CurrentUrl(h)})
                         \cup {UpdatedUrl(h)}
                /\ \A u \in DOMAIN components' \ {UpdatedUrl(h)} :
                      components'[u] = components[u]
                /\ \A i \in 1..Len(FIELDS) :
                      components'[UpdatedUrl(h)][FIELDS[i]]
                         = Get(handler[h].updated, FIELDS[i])
          /\ (handler[h].pc = "query" /\ handler'[h].pc # "query")
             => handler'[h].dependents =
                   {p \in ProjectIds :
                       <<p, UpdatedUrl(h)>> \in project_components}
          /\ (handler'[h].pc = "done" /\ handler'[h].outcome = "Updated")
             => /\ handler'[h].writes = 1
                /\ Get(handler'[h].response, "package_url")
                      = Get(handler'[h].updated, "package_url")
      ]_vars

\* pkg:a was renamed to pkg:b next to pkg:c, its dependent projects were
\* found under the new name and the request answered Updated
C14_Witness ==
    \E h \in Handlers :
        /\ Done(h) /\ handler[h].outcome = "Updated"
        /\ handler[h].url = "pkg:a"
        /\ UpdatedUrl(h) = "pkg:b"
        /\ DOMAIN components = {"pkg:b", "pkg:c"}
        /\ handler[h].cascaded
        /\ handler[h].dependents = ProjectIds

\* the fields a request edited
Edited(h) ==
    {k \in Keys(handler[h].updated) :
        ~Has(handler[h].original, k)
           \/ Get(handler[h].original, k) # Get(handler[h].updated, k)}

\* C16: when two requests on the same component read the same snapshot,
\* edit different fields and are both answered Updated, the stored record
\* has the edits of both.
C16_NoLostUpdate ==
    \A h, g \in Handlers :
        (h # g /\ Done(h) /\ Done(g)
            /\ handler[h].outcome = "Updated" /\ handler[g].outcome = "Updated"
            /\ handler[h].url = handler[g].url
            /\ handler[h].original = handler[g].original
            /\ Edited(h) \cap Edited(g) = {}
            /\ handler[h].url \in DOMAIN components)
        => \A k \in Edited(h) \cap Range(FIELDS) :
              components[handler[h].url][k] = Get(handler[h].updated, k)

\* C17: a request is answered NotModified only when the patched snapshot
\* has the same fields with the same values as the snapshot that was read.
C17_NotModifiedOnlyWhenSame ==
    \A h \in Handlers :
        (Done(h) /\ handler[h].outcome = "NotModified")
        => /\ Keys(handler[h].updated) = Keys(handler[h].original)
           /\ \A k \in Keys(handler[h].updated) :
                 Get(handler[h].updated, k) = Get(handler[h].original, k)

\* the decision rule: the status changed, or the final status is Active
\* and active_version changed
CascadeRule(original, updated) ==
    \/ Get(original, "status") # Get(updated, "status")
    \/ /\ Get(updated, "status") = Str("Active")
       /\ Get(original, "active_version") # Get(updated, "active_version")

\* C7 (as stated): a request answered Updated has run the cascade iff the
\* decision rule holds of the original and the updated snapshot.
C7_CascadeIffRule ==
    \A h \in Handlers :
        (Done(h) /\ handler[h].outcome = "Updated")
        => (handler[h].cascaded
               <=> CascadeRule(handler[h].original, handler[h].updated))

\* C7 (amended): a request answered Updated has run the cascade iff
\* components.project_fact_type_id is configured and the decision rule
\* holds of the original and the updated snapshot.
C7_CascadeIffConfiguredAndRule ==
    \A h \in Handlers :
        (Done(h) /\ handler[h].outcome = "Updated")
        => (handler[h].cascaded
               <=> (settings # "None"
                    /\ CascadeRule(handler[h].original, handler[h].updated)))

\* Active -> Deprecated with active_version unchanged has run the cascade
C7_Witness ==
    \E h \in Handlers :
        /\ Done(h) /\ handler[h].outcome = "Updated" /\ handler[h].cascaded
        /\ Get(handler[h].original, "status") = Str("Active")
        /\ Get(handler[h].updated, "status") = Str("Deprecated")
        /\ Get(handler[h].original, "active_version")
              = Get(handler[h].updated, "active_version")

\* how an outcome is surfaced to the client
ErrorClass(outcome) ==
    CASE outcome \in {"Updated", "NotModified"} -> "success"
      [] outcome \in {"ItemNotFound", "BadJsonPatch", "BadRequest"}
            -> "client_error"
      [] outcome = "UniqueViolation" -> "conflict"
      [] OTHER -> "server_error"

\* C8: a request whose write affected zero rows is answered with a conflict
\* signal, never Updated, and it neither runs a cascade nor writes again.
C8_ZeroRowsIsConflict ==
    \A h \in Handlers :
        (Done(h) /\ handler[h].zeroRows)
        => /\ ErrorClass(handler[h].outcome) = "conflict"
           /\ ~handler[h].cascaded
           /\ handler[h].writes = 0

\* ------------------------------------------------------------------------
\* Properties of the project aggregate loader (LoadSpec)
\* ------------------------------------------------------------------------
\* C9: a Project is handed out only when all eight sub-loads succeeded, and
\* a call that ended with a failed sub-load ended with the DatabaseError of
\* a sub-load that failed.
C9_NoPartialAggregate ==
    /\ loadResult.kind = "Project" => \A s \in SubLoads : sub[s] = "ok"
    /\ (lpc = "done" /\ \E s \in SubLoads : sub[s] = "failed")
       => /\ loadResult.kind = "DatabaseError"
          /\ loadResult.source \in SubLoads
          /\ sub[loadResult.source] = "failed"

\* one sub-load failed after some had succeeded, the others succeeded after
\* the call had failed
C9_Witness ==
    /\ lpc = "done"
    /\ loadResult.kind = "DatabaseError"
    /\ Cardinality({s \in SubLoads : sub[s] = "failed"}) = 1
    /\ Cardinality({s \in SubLoads : sub[s] = "ok"}) = 7

\* C10 (as stated): the call for an id without a row, whose root query
\* succeeded, ends with a NotFound error and no sub-load was issued.
C10_MissingRootIsNotFound ==
    (lpc = "done" /\ ~projectRow /\ loadResult.source # "project")
    => (loadResult.kind = "NotFound" /\ issued = {})

\* C10 (amended): the call for an id without a row, whose root query
\* succeeded, returns None without raising, and no sub-load was issued.
C10_MissingRootReturnsNone ==
    (lpc = "done" /\ ~projectRow /\ loadResult.source # "project")
    => (loadResult.kind = "None" /\ issued = {})

\* the call for an id without a row has returned
C10_Witness ==
    lpc = "done" /\ ~projectRow /\ loadResult.kind = "None"
\* ------------------------------------------------------------------------
\* Properties of the project components listing (ItemSpec)
\* ------------------------------------------------------------------------
\* the status the listing is meant to expose
ExpectedStatus(it) ==
    IF it.status # "Active" THEN it.status
    ELSE IF it.active_version = None THEN "Unscored"
    ELSE IF VersionIn(it.version, it.active_version) THEN "Up-to-date"
    ELSE "Outdated"

\* C15: the exposed status of a row is the component's status unless that
\* is Active; for an Active component it is Unscored without an
\* active_version, Up-to-date with the version inside it, else Outdated.
C15_ExposedStatus ==
    exposed # "" => exposed = ExpectedStatus(item)

\* ------------------------------------------------------------------------
\* Properties of the loader on a bounded pool (PoolSpec)
\* ------------------------------------------------------------------------
HoldsRoot(c) == loader[c].pc \in {"root", "gather"}
WaitsForMore(c) ==
    /\ loader[c].pc = "gather"
    /\ \E s \in SubLoads : loader[c].sub[s] = "waiting"
    /\ \A s \in SubLoads : loader[c].sub[s] # "running"

\* C18: in no reachable state is every connection of the pool held by a
\* call that waits for a further connection (from such a state no call
\* ever completes).
C18_PoolNeverHeldByWaiters ==
    ~ /\ free = 0
      /\ \E c \in Calls : HoldsRoot(c)
      /\ \A c \in Calls : HoldsRoot(c) => WaitsForMore(c)
====
